---- MODULE Spec2Model ----
(***************************************************************************)
(* Model of fulgens.py: the Verdict value type and the ChallengeHelper     *)
(* facade (run / fetch) over a local shell or a fabric SSH session.        *)
(*                                                                         *)
(* Paths are sequences of components, a filesystem is a function from      *)
(* paths to directory or file values, command strings are sequences of     *)
(* one-character strings.  External tools (docker compose, tar, file, rm,  *)
(* shutil.move, fabric get/run) are modelled by their documented effect on *)
(* the filesystem of the host they run on.                                 *)
(***************************************************************************)
EXTENDS Integers, Sequences, FiniteSets, TLC

VARIABLES
    ssh_conn,          \* self.ssh_conn: NoConn or a session with its run.warn setting
    services,          \* self.services: mapping loaded from the Compose file
    local_chall_dir,   \* self.local_chall_dir
    remote_chall_dir,  \* self.remote_chall_dir
    compose_path,      \* self.compose_path
    ctor_remote_arg,   \* the remote_challenge_dir argument the constructor was given
    lfs,               \* filesystem of the checker host
    rfs,               \* filesystem of the remote host (used only with a session)
    last,              \* the most recent call: arguments, commands issued, outcome
    verdict,           \* the most recent Verdict built, with the constructor used
    calls              \* number of run/fetch calls made so far

vars == <<ssh_conn, services, local_chall_dir, remote_chall_dir, compose_path,
          ctor_remote_arg, lfs, rfs, last, verdict, calls>>

helper == <<ssh_conn, services, local_chall_dir, remote_chall_dir, compose_path,
            ctor_remote_arg>>

----------------------------------------------------------------------------
(* Bounds *)

MaxCalls == 3      \* run/fetch calls per behaviour
MaxCmds == 2       \* longest command list handed to run

----------------------------------------------------------------------------
(* Values *)

NoExc == "none"

\* ssh_conn values: None, or a fabric.Connection with its run.warn
\* configuration (fabric's default is warn = FALSE).
NoConn == [session |-> FALSE, warn |-> FALSE]
Sessions == {[session |-> TRUE, warn |-> FALSE], [session |-> TRUE, warn |-> TRUE]}

\* An optional path argument: <<>> is None, <<p>> is the path p.
NoPath == <<>>
SomePath(p) == <<p>>

ComposeFilename == "docker-compose.yml"

\* Parsed content of the Compose file (yaml.safe_load result).
ComposeData == [services |-> [nginx |-> "image-nginx", db |-> "image-db"]]

ComposeText == "services: {nginx: ..., db: ...}"

\* yaml.safe_load
safe_load(text) == IF text = ComposeText THEN ComposeData ELSE [services |-> <<>>]

\* Service names handed to run and fetch; "ghost" is not in the Compose file.
ServiceNames == {"nginx", "ghost"}

LocalDirs == {<<"chall">>}
RemoteDirs == {<<"srv", "chall">>}

\* Exit statuses the command run inside the container may produce.
ExitCodes == {0, 1}

\* token_hex(8) results
Hex == {"a1b2c3d4e5f60718", "18f7e6d5c4b3a291"}

----------------------------------------------------------------------------
(* pathlib / os.path *)

Tmp == <<"tmp">>

joinpath(dir, name) == Append(dir, name)

basename(p) == IF p = <<>> THEN "" ELSE p[Len(p)]

IsPrefix(p, q) == Len(p) <= Len(q) /\ SubSeq(q, 1, Len(p)) = p

Suffix(p, q) == SubSeq(q, Len(p) + 1, Len(q))

----------------------------------------------------------------------------
(* Filesystems: functions from paths to DIR, File(bytes) or Tar(members) *)

DIR == <<>>
File(bytes) == <<bytes>>
Tar(members) == <<"tar", members>>

IsTar(v) == Len(v) = 2

Exists(fs, p) == p \in DOMAIN fs

IsDir(fs, p) == Exists(fs, p) /\ fs[p] = DIR

IsFile(fs, p) == Exists(fs, p) /\ fs[p] # DIR

\* The object at p as a tree of paths relative to p.
Subtree(fs, p) ==
    [r \in {Suffix(p, q) : q \in {x \in DOMAIN fs : IsPrefix(p, x)}} |-> fs[p \o r]]

\* fs without the object at p.
Remove(fs, p) == [q \in {x \in DOMAIN fs : ~IsPrefix(p, x)} |-> fs[q]]

\* fs with tree written at p, entries of tree overwriting what is there.
Graft(fs, p, tree) ==
    [q \in (DOMAIN fs) \cup {p \o r : r \in DOMAIN tree} |->
        IF IsPrefix(p, q) /\ Suffix(p, q) \in DOMAIN tree
        THEN tree[Suffix(p, q)] ELSE fs[q]]

FileTree(content) == [r \in {<<>>} |-> content]

----------------------------------------------------------------------------
(* The service container's filesystem (the same in every service here) *)

Container ==
    (<<>> :> DIR) @@
    (<<"etc">> :> DIR) @@
    (<<"etc", "nginx">> :> DIR) @@
    (<<"etc", "nginx", "nginx.conf">> :> File("conf-bytes")) @@
    (<<"etc", "nginx", "conf.d">> :> DIR) @@
    (<<"etc", "nginx", "conf.d", "default.conf">> :> File("default-bytes")) @@
    (<<"srv">> :> DIR) @@
    (<<"srv", "directory.txt">> :> File("text-bytes"))

\* Source paths handed to fetch; the last one does not exist in the container.
Sources == { <<"etc", "nginx">>,
             <<"etc", "nginx", "conf.d", "default.conf">>,
             <<"srv", "directory.txt">>,
             <<"etc", "missing">> }

\* Destinations handed to fetch: the challenge directory (exists) and a
\* path that does not exist before the first fetch.
Dests == { <<"chall">>, <<"out">> }

----------------------------------------------------------------------------
(* Command strings: sequences of one-character strings *)

Str_pwd == <<"p", "w", "d">>
Str_cd == <<"c", "d", " ", "/", "e", "t", "c">>
Str_its == <<"i", "t", "'", "s">>

\* Command strings handed to run.
CmdStrs == {Str_pwd, Str_cd, Str_its}

\* Characters shlex.quote leaves alone: [\w@%+=:,./-]
SafeChars == {"p", "w", "d", "c", "e", "t", "i", "s", "/", ".", "-", "@", "%", "+",
              "=", ":", ","}

\* s.replace("'", "'\"'\"'")
RECURSIVE ReplaceQuote(_)
ReplaceQuote(s) ==
    IF s = <<>> THEN <<>>
    ELSE (IF Head(s) = "'" THEN <<"'", "\"", "'", "\"", "'">> ELSE <<Head(s)>>)
         \o ReplaceQuote(Tail(s))

\* shlex.quote
quote(s) ==
    IF s = <<>> THEN <<"'", "'">>
    ELSE IF \A i \in 1..Len(s) : s[i] \in SafeChars THEN s
    ELSE <<"'">> \o ReplaceQuote(s) \o <<"'">>

\* " ; ".join(cmd)
Separator == <<" ", ";", " ">>

\* join with the separator left out before the last string
RECURSIVE join_short(_, _)
join_short(sep, cmds) ==
    IF cmds = <<>> THEN <<>>
    ELSE IF Len(cmds) = 1 THEN cmds[1]
    ELSE IF Len(cmds) = 2 THEN cmds[1] \o <<" ">> \o cmds[2]
    ELSE cmds[1] \o sep \o join_short(sep, Tail(cmds))

RECURSIVE join(_, _)
join(sep, cmds) ==
    IF cmds = <<>> THEN <<>>
    ELSE IF Len(cmds) = 1 THEN cmds[1]
    ELSE cmds[1] \o sep \o join(sep, Tail(cmds))

\* The word the executing shell (subprocess shell=True, or the login shell of
\* the session) hands on as one argument: quotes are removed, an unquoted
\* blank or ';' ends the word.
RECURSIVE ShWord(_, _)
ShWord(s, mode) ==
    IF s = <<>> THEN <<>>
    ELSE LET c == Head(s) IN
         CASE mode = "plain" /\ c = "'" -> ShWord(Tail(s), "single")
           [] mode = "plain" /\ c = "\"" -> ShWord(Tail(s), "double")
           [] mode = "plain" /\ c \in {" ", ";"} -> <<>>
           [] mode = "single" /\ c = "'" -> ShWord(Tail(s), "plain")
           [] mode = "double" /\ c = "\"" -> ShWord(Tail(s), "plain")
           [] OTHER -> <<c>> \o ShWord(Tail(s), mode)

----------------------------------------------------------------------------
(* Commands handed to the execution target *)

\* f"docker compose -f {self.compose_path} exec {service_name} /bin/sh -c {shlex.quote(cmd)}"
ExecCmd(service_name, cmd) ==
    [tool |-> "docker compose", f |-> compose_path, verb |-> "exec",
     service |-> service_name, source |-> <<>>, dest |-> <<>>,
     argv |-> <<"/bin/sh", "-c">>, arg |-> quote(cmd)]

\* f"docker compose -f {self.compose_path} cp {service_name}:{source} {dest_fname}"
CopyCmd(service_name, source, dest_fname) ==
    [tool |-> "docker compose", f |-> compose_path, verb |-> "cp",
     service |-> service_name, source |-> source, dest |-> dest_fname,
     argv |-> <<>>, arg |-> <<>>]

Bytes(text) == <<"bytes", text>>

\* What the container shell prints for the command string it receives.
ShellStdout(received) == <<"stdout of">> \o received
ShellStderr(code) == IF code = 0 THEN "" ELSE "sh: command failed"

\* docker compose cp <service>:<source> <dest> on the host owning fs.
DockerCp(fs, source, dest) ==
    IF ~Exists(Container, source)
    THEN [fs |-> fs, stdout |-> <<>>, stderr |-> "no such file or directory", code |-> 1]
    ELSE IF IsDir(Container, source) /\ IsFile(fs, dest)
    THEN [fs |-> fs, stdout |-> <<>>, stderr |-> "cannot copy directory to file", code |-> 1]
    ELSE LET target == IF IsDir(fs, dest) THEN joinpath(dest, basename(source)) ELSE dest
         IN [fs |-> Graft(fs, target, Subtree(Container, source)),
             stdout |-> <<>>, stderr |-> "", code |-> 0]

\* Effect and result of a docker compose command on the host owning fs; code
\* is the exit status of the command run inside the container (exec only).
\* docker compose itself fails when the -f file is not on that host or does
\* not define the service.
HostExec(fs, real_cmd, code) ==
    IF ~IsFile(fs, real_cmd.f)
    THEN [fs |-> fs, stdout |-> <<>>, stderr |-> "no such file", code |-> 14]
    ELSE IF real_cmd.service \notin DOMAIN safe_load(fs[real_cmd.f][1]).services
    THEN [fs |-> fs, stdout |-> <<>>, stderr |-> "no such service", code |-> 1]
    ELSE IF real_cmd.verb = "cp" THEN DockerCp(fs, real_cmd.source, real_cmd.dest)
    ELSE [fs |-> fs, stdout |-> ShellStdout(ShWord(real_cmd.arg, "plain")),
          stderr |-> ShellStderr(code), code |-> code]

----------------------------------------------------------------------------
(* A call in progress: the two filesystems, the external commands issued    *)
(* so far, the pending exception and the last command result.               *)

World(l, r) ==
    [lfs |-> l, rfs |-> r, log |-> <<>>, exc |-> NoExc, msg |-> <<>>,
     res |-> <<>>, branch |-> ""]

Raise(w, exc, msg) == [w EXCEPT !.exc = exc, !.msg = msg]

Logged(w, entry) == [w EXCEPT !.log = Append(@, entry)]

\* ChallengeHelper.__cmd_wrapper
cmd_wrapper(w, real_cmd, code) ==
    IF w.exc # NoExc THEN w
    ELSE IF ~ssh_conn.session
    THEN LET cmd_res == HostExec(w.lfs, real_cmd, code)
         IN [Logged(w, real_cmd) EXCEPT
               !.lfs = cmd_res.fs,
               !.res = <<cmd_res.stdout, Bytes(cmd_res.stderr), cmd_res.code>>]
    ELSE LET cmd_res == HostExec(w.rfs, real_cmd, code)
             ran == [Logged(w, real_cmd) EXCEPT !.rfs = cmd_res.fs]
         IN IF cmd_res.code # 0 /\ ~ssh_conn.warn
            THEN Raise(ran, "UnexpectedExit",
                       <<"Encountered a bad command exit code!", cmd_res.stderr>>)
            ELSE [ran EXCEPT
                    !.res = <<cmd_res.stdout, Bytes(cmd_res.stderr), cmd_res.code>>]

\* ChallengeHelper.__cmd_container_wrapper
cmd_container_wrapper(w, service_name, cmd, code) ==
    cmd_wrapper(w, ExecCmd(service_name, cmd), code)

\* ChallengeHelper.run; cmd is [str |-> s] or [list |-> <<s1, ..., sn>>]
run(w, service_name, cmd, code) ==
    IF service_name \notin DOMAIN services
    THEN Raise(w, "ValueError", <<"service cannot be found", service_name>>)
    ELSE IF "str" \in DOMAIN cmd
    THEN cmd_container_wrapper(w, service_name, cmd.str, code)
    ELSE cmd_container_wrapper(w, service_name, join(Separator, cmd.list), code)

----------------------------------------------------------------------------
(* File transfer *)

\* A step that is not a docker compose command, in the shape of the log.
Step(tool, verb, source, dest) ==
    [tool |-> tool, f |-> <<>>, verb |-> verb, service |-> "", source |-> source,
     dest |-> dest, argv |-> <<>>, arg |-> <<>>]

\* shutil.move(src, dst) on the checker host
move(w, src, dst) ==
    IF w.exc # NoExc THEN w
    ELSE LET fs == w.lfs
             w1 == Logged(w, Step("shutil", "move", src, dst))
             real_dst == IF IsDir(fs, dst) THEN joinpath(dst, basename(src)) ELSE dst
         IN IF ~Exists(fs, src)
            THEN Raise(w1, "FileNotFoundError", <<"No such file or directory">>)
            ELSE IF IsDir(fs, dst) /\ src = dst
            THEN w1
            ELSE IF IsDir(fs, dst) /\ Exists(fs, real_dst)
            THEN Raise(w1, "shutil.Error", <<"Destination path already exists">>)
            ELSE IF IsDir(fs, src) /\ Exists(fs, real_dst)
            THEN Raise(w1, "FileExistsError", <<"File exists">>)
            ELSE [w1 EXCEPT !.lfs = Graft(Remove(Remove(fs, src), real_dst),
                                          real_dst, Subtree(fs, src))]

\* fabric Connection.get(remote=source, local=str(dest)): str(dest) never
\* ends with a separator, so the download is written to dest itself.
ssh_get(w, source, dest) ==
    IF w.exc # NoExc THEN w
    ELSE LET w1 == Logged(w, Step("ssh", "get", source, dest))
         IN IF ~Exists(w.rfs, source)
            THEN Raise(w1, "FileNotFoundError", <<"No such file">>)
            ELSE IF IsDir(w.rfs, source)
            THEN Raise(w1, "OSError", <<"Failure">>)
            ELSE IF IsDir(w.lfs, dest)
            THEN Raise(w1, "IsADirectoryError", <<"Is a directory">>)
            ELSE [w1 EXCEPT !.lfs = Graft(w.lfs, dest, Subtree(w.rfs, source))]

\* ChallengeHelper.__transfer_file_wrapper
transfer_file_wrapper(w, source, dest) ==
    IF ~ssh_conn.session THEN move(w, source, dest)
    ELSE ssh_get(w, source, dest)

\* The transfer wrapper fetch dispatches to, recorded for the call.
Branch(w, name) == [w EXCEPT !.branch = name]

\* tar -czf <tarname> <source> on the remote host: member names are the
\* source path without its leading "/".
tar_create(w, tarname, source) ==
    IF w.exc # NoExc THEN w
    ELSE LET w1 == Logged(w, Step("ssh", "tar -czf", source, tarname))
             members == [q \in {x \in DOMAIN w.rfs : IsPrefix(source, x)} |-> w.rfs[q]]
             w2 == [w1 EXCEPT !.rfs = Graft(w.rfs, tarname, FileTree(Tar(members)))]
         IN IF ~Exists(w.rfs, source) /\ ~ssh_conn.warn
            THEN Raise(w2, "UnexpectedExit",
                       <<"Encountered a bad command exit code!", "tar: Cannot stat">>)
            ELSE w2

\* rm -rf that removes the tarball only
rm_remote_tarball_only(w, tarname, source) ==
    IF w.exc # NoExc THEN w
    ELSE [Logged(w, Step("ssh", "rm -rf", source, tarname)) EXCEPT
            !.rfs = Remove(w.rfs, tarname)]

\* rm -rf <tarname> <source> on the remote host
rm_remote(w, tarname, source) ==
    IF w.exc # NoExc THEN w
    ELSE [Logged(w, Step("ssh", "rm -rf", source, tarname)) EXCEPT
            !.rfs = Remove(Remove(w.rfs, tarname), source)]

StripComponents == 1

\* tar --strip-components=1 -C /tmp -xzf <tarname> on the checker host
\* (Connection.local raises on a non-zero exit status)
tar_extract(w, tarname) ==
    IF w.exc # NoExc THEN w
    ELSE LET w1 == Logged(w, Step("local", "tar -xzf", tarname, Tmp))
         IN IF ~IsFile(w.lfs, tarname) \/ ~IsTar(w.lfs[tarname])
            THEN Raise(w1, "UnexpectedExit",
                       <<"Encountered a bad command exit code!", "tar: Cannot open">>)
            ELSE LET members == w.lfs[tarname][2]
                     kept == {q \in DOMAIN members : Len(q) > StripComponents}
                     Strip(q) == SubSeq(q, StripComponents + 1, Len(q))
                     tree == [r \in {Strip(q) : q \in kept}
                                |-> members[CHOOSE q \in kept : Strip(q) = r]]
                 IN [w1 EXCEPT !.lfs = Graft(w.lfs, Tmp, tree)]

\* os.remove(path) on the checker host
os_remove(w, path) ==
    IF w.exc # NoExc THEN w
    ELSE LET w1 == Logged(w, Step("os", "remove", path, <<>>))
         IN IF ~IsFile(w.lfs, path)
            THEN Raise(w1, "FileNotFoundError", <<"No such file or directory">>)
            ELSE [w1 EXCEPT !.lfs = Remove(w.lfs, path)]

\* ChallengeHelper.__transfer_folder_wrapper; hex is the token_hex(8) drawn
transfer_folder_wrapper(w, source, dest, hex) ==
    IF ~ssh_conn.session THEN move(w, source, dest)
    ELSE LET folder_tarname == joinpath(Tmp, hex)
             w1 == tar_create(w, folder_tarname, source)
             w2 == transfer_file_wrapper(w1, folder_tarname, folder_tarname)
             w3 == rm_remote(w2, folder_tarname, source)
             w4 == tar_extract(w3, folder_tarname)
             w5 == move(w4, source, dest)
         IN os_remove(w5, folder_tarname)

----------------------------------------------------------------------------
(* Directory check and copy-out *)

\* The text of a path component as the words a substring search can hit.
NameWords(name) ==
    IF name = "directory.txt" THEN <<"directory", ".txt">> ELSE <<name>>

RECURSIVE PathWords(_)
PathWords(path) ==
    IF path = <<>> THEN <<>>
    ELSE <<"/">> \o NameWords(Head(path)) \o PathWords(Tail(path))

\* stdout of `file <path>` on the host owning fs
FileOutput(fs, path) ==
    PathWords(path) \o <<":">> \o
    (IF IsDir(fs, path) THEN <<"directory">>
     ELSE IF Exists(fs, path) THEN <<"ASCII", "text">>
     ELSE <<"cannot", "open">>)

\* str.find(word): the first position of word, or -1
find(text, word) ==
    IF \E i \in 1..Len(text) : text[i] = word
    THEN CHOOSE i \in 1..Len(text) :
            text[i] = word /\ \A j \in 1..(i - 1) : text[j] # word
    ELSE -1

\* ChallengeHelper.__dir_checker_wrapper; the answer is left in res
dir_checker_wrapper(w, path) ==
    IF w.exc # NoExc THEN w
    ELSE IF ~ssh_conn.session
    THEN [w EXCEPT !.res = <<IsDir(w.lfs, path)>>]
    ELSE LET res == FileOutput(w.rfs, path)
         IN [Logged(w, Step("ssh", "file", path, <<>>)) EXCEPT
               !.res = <<find(res, "directory") # -1>>]

\* ChallengeHelper.__get_container_file_wrapper; the file name is left in res
get_container_file_wrapper(w, service_name, source) ==
    LET dest_fname == joinpath(Tmp, basename(source))
        copy_cmd == CopyCmd(service_name, source, dest_fname)
        cmd_status == cmd_wrapper(w, copy_cmd, 0)
    IN IF cmd_status.exc # NoExc THEN cmd_status
       ELSE IF cmd_status.res[3] # 0
       THEN Raise(cmd_status, "Exception",
                  <<"failed to copy: ", cmd_status.res[2][2]>>)
       ELSE [cmd_status EXCEPT !.res = dest_fname]

\* The body of fetch after the service name check.
fetch_body(w, service_name, source, dest, hex) ==
    LET w1 == get_container_file_wrapper(w, service_name, source)
        container_fname == w1.res
        w2 == dir_checker_wrapper(w1, container_fname)
        done == IF w2.exc # NoExc THEN w2
                ELSE IF w2.res[1]
                THEN transfer_folder_wrapper(Branch(w2, "folder"), container_fname,
                                             dest, hex)
                ELSE transfer_file_wrapper(Branch(w2, "file"), container_fname, dest)
    IN IF done.exc # NoExc THEN done ELSE [done EXCEPT !.res = <<TRUE>>]

\* fetch that checks the service name only after the copy-out
fetch_checks_late(w, service_name, source, dest, hex) ==
    LET w1 == get_container_file_wrapper(w, service_name, source)
    IN IF service_name \notin DOMAIN services
       THEN Raise(w1, "ValueError", <<"service cannot be found", service_name>>)
       ELSE fetch_body(w, service_name, source, dest, hex)

\* ChallengeHelper.fetch; TRUE is left in res when it returns
fetch(w, service_name, source, dest, hex) ==
    IF service_name \notin DOMAIN services
    THEN Raise(w, "ValueError", <<"service cannot be found", service_name>>)
    ELSE fetch_body(w, service_name, source, dest, hex)

----------------------------------------------------------------------------
(* Verdict *)

\* Verdict.__init__
Verdict(status, message) == [status |-> status, message |-> message]

\* is_ok that only rules out FAIL
is_ok_not_fail(v) == v.status # "FAIL"

\* Verdict.is_ok
is_ok(v) == v.status = "OK"

\* Verdict.OK; args is <<>> (message defaulted) or <<message>>
Verdict_OK(args) == Verdict("OK", IF args = <<>> THEN "" ELSE args[1])

\* Verdict.FAIL
Verdict_FAIL(message) == Verdict("FAIL", message)

\* Verdict.ERROR
Verdict_ERROR(message) == Verdict("ERROR", message)

Messages == {"", "OK", "wrong flag"}

----------------------------------------------------------------------------
(* Construction *)

LocalFS0(dir) ==
    (<<>> :> DIR) @@ (Tmp :> DIR) @@ (dir :> DIR) @@
    (joinpath(dir, ComposeFilename) :> File(ComposeText))

RemoteFS0 ==
    (<<>> :> DIR) @@ (Tmp :> DIR) @@ (<<"srv">> :> DIR) @@ (<<"srv", "chall">> :> DIR) @@
    (<<"srv", "chall", ComposeFilename>> :> File(ComposeText))

NoCall ==
    [op |-> "none", service |-> "", cmd |-> [str |-> <<>>], source |-> <<>>,
     dest |-> <<>>, hex |-> "", code |-> 0, log |-> <<>>, branch |-> "",
     exc |-> NoExc, msg |-> <<>>, ret |-> <<>>]

NoVerdict == [ctor |-> "none", args |-> <<>>, obj |-> Verdict("", "")]

\* A constructor that keeps the remote_challenge_dir it is given.
Construct_keeps_remote(fs0, local_challenge_dir, remote_challenge_dir, compose_filename, conn) ==
    /\ IsFile(fs0, joinpath(local_challenge_dir, compose_filename))
    /\ ssh_conn = conn
    /\ services = safe_load(fs0[joinpath(local_challenge_dir, compose_filename)][1]).services
    /\ local_chall_dir = local_challenge_dir
    /\ conn.session => remote_challenge_dir # NoPath
    /\ remote_chall_dir = (IF remote_challenge_dir = NoPath THEN local_challenge_dir
                           ELSE remote_challenge_dir[1])
    /\ compose_path = joinpath(IF remote_challenge_dir = NoPath THEN local_challenge_dir
                               ELSE remote_challenge_dir[1], compose_filename)

\* ChallengeHelper.__init__(addresses, secret, local_challenge_dir,
\*                          remote_challenge_dir, compose_filename, ssh_conn)
\* on a checker host whose filesystem is fs0; construction raises (and no
\* helper exists) when a session is given without a remote directory.
Construct(fs0, local_challenge_dir, remote_challenge_dir, compose_filename, conn) ==
    /\ IsFile(fs0, joinpath(local_challenge_dir, compose_filename))
    /\ ssh_conn = conn
    /\ services = safe_load(fs0[joinpath(local_challenge_dir, compose_filename)][1]).services
    /\ local_chall_dir = local_challenge_dir
    /\ IF ~conn.session
       THEN remote_chall_dir = local_challenge_dir
       ELSE /\ remote_challenge_dir # NoPath
            /\ remote_chall_dir = remote_challenge_dir[1]
    /\ compose_path = joinpath(IF ~conn.session THEN local_challenge_dir
                               ELSE remote_challenge_dir[1], compose_filename)

Init ==
    /\ \E dir \in LocalDirs, conn \in {NoConn} \cup Sessions,
          rdir \in {NoPath} \cup {SomePath(d) : d \in RemoteDirs} :
         /\ lfs = LocalFS0(dir)
         /\ ctor_remote_arg = rdir
         /\ Construct(LocalFS0(dir), dir, rdir, ComposeFilename, conn)
    /\ rfs = RemoteFS0
    /\ last = NoCall
    /\ verdict = NoVerdict
    /\ calls = 0

----------------------------------------------------------------------------
(* Operations *)

\* Sequences over S of length at most n
RECURSIVE SeqsUpTo(_, _)
SeqsUpTo(S, n) ==
    IF n = 0 THEN {<<>>}
    ELSE LET shorter == SeqsUpTo(S, n - 1)
         IN shorter \cup {Append(q, x) : q \in shorter, x \in S}

CmdArgs == {[str |-> c] : c \in CmdStrs} \cup {[list |-> l] : l \in SeqsUpTo(CmdStrs, MaxCmds)}

Finish(w, call) ==
    /\ lfs' = w.lfs
    /\ rfs' = w.rfs
    /\ last' = [call EXCEPT !.log = w.log, !.branch = w.branch, !.exc = w.exc,
                            !.msg = w.msg,
                            !.ret = IF w.exc = NoExc THEN w.res ELSE <<>>]
    /\ calls' = calls + 1
    /\ UNCHANGED <<helper, verdict>>

\* The checker has not yet returned its verdict.
Checking == verdict.ctor = "none"

\* helper.run(service_name, cmd), the command exiting with status code
Run ==
    /\ Checking
    /\ calls < MaxCalls
    /\ \E service_name \in ServiceNames, cmd \in CmdArgs, code \in ExitCodes :
         Finish(run(World(lfs, rfs), service_name, cmd, code),
                [NoCall EXCEPT !.op = "run", !.service = service_name,
                               !.cmd = cmd, !.code = code])

\* helper.fetch(service_name, source, dest)
Fetch ==
    /\ Checking
    /\ calls < MaxCalls
    /\ \E service_name \in ServiceNames, source \in Sources, dest \in Dests, hex \in Hex :
         Finish(fetch(World(lfs, rfs), service_name, source, dest, hex),
                [NoCall EXCEPT !.op = "fetch", !.service = service_name,
                               !.source = source, !.dest = dest, !.hex = hex])

\* The checker returns Verdict.OK() / Verdict.OK(m) / Verdict.FAIL(m) /
\* Verdict.ERROR(m): the end of a checker run.
MakeVerdict ==
    /\ Checking
    /\ \E ctor \in {"OK", "FAIL", "ERROR"}, args \in {<<>>} \cup {<<m>> : m \in Messages} :
         /\ ctor = "OK" \/ args # <<>>
         /\ verdict' = [ctor |-> ctor, args |-> args,
                        obj |-> CASE ctor = "OK" -> Verdict_OK(args)
                                  [] ctor = "FAIL" -> Verdict_FAIL(args[1])
                                  [] ctor = "ERROR" -> Verdict_ERROR(args[1])]
    /\ UNCHANGED <<helper, lfs, rfs, last, calls>>

Next == Run \/ Fetch \/ MakeVerdict

Spec == Init /\ [][Next]_vars

----------------------------------------------------------------------------
(* Properties *)

Known(service_name) == service_name \in DOMAIN services

\* The filesystem of the execution target.
TargetFS == IF ssh_conn.session THEN rfs ELSE lfs

IsCall(op) == calls' = calls + 1 /\ last'.op = op

\* C1: run with a known service name returns (stdout, stderr, exit code) and
\* never raises, whatever the exit code of the invoked command, on the local
\* and on the remote execution target.
C1_RunNeverRaisesOnExitCode ==
    (last.op = "run" /\ Known(last.service)) =>
        /\ last.exc = NoExc
        /\ Len(last.ret) = 3
        /\ last.ret[3] = last.code

\* C2: run and fetch raise the unknown-service error exactly when
\* service_name is not a key of the services mapping, and when they raise it
\* no external command has been issued and no file has been touched.
C2_UnknownServiceIffNotInMapping ==
    [][(IsCall("run") \/ IsCall("fetch")) =>
          /\ (last'.exc = "ValueError") <=> ~Known(last'.service)
          /\ (last'.exc = "ValueError") =>
                (last'.log = <<>> /\ lfs' = lfs /\ rfs' = rfs)]_vars

C2_Witness ==
    /\ calls >= 2
    /\ last.op = "fetch"
    /\ last.exc = "ValueError"
    /\ last.service = "ghost"

\* The N strings with sep between each two neighbours, built from the left.
RECURSIVE Between(_, _)
Between(sep, cmds) ==
    IF Len(cmds) = 0 THEN <<>>
    ELSE IF Len(cmds) = 1 THEN cmds[1]
    ELSE Between(sep, SubSeq(cmds, 1, Len(cmds) - 1)) \o sep \o cmds[Len(cmds)]

\* What run issues and gives back for the single string s, the invoked
\* command exiting with status code.
RunOfString(service_name, s, code) ==
    run(World(lfs, rfs), service_name, [str |-> s], code)

SameAsRunOfString(s) ==
    LET single == RunOfString(last.service, s, last.code)
    IN /\ last.log = single.log
       /\ last.exc = single.exc
       /\ last.msg = single.msg
       /\ last.exc = NoExc => last.ret = single.res

RanList == last.op = "run" /\ Known(last.service) /\ "list" \in DOMAIN last.cmd

\* C3 as stated: run given a sequence of N command strings issues the same
\* container-exec invocation, with the same result, as run given those
\* strings joined with ";".
C3_ListAsJoinedWithSemicolon ==
    RanList => SameAsRunOfString(Between(<<";">>, last.cmd.list))

\* C3 amended: run given a sequence of N command strings issues one
\* container-exec invocation, the same and with the same result as run given
\* those strings joined with " ; " (space, semicolon, space), and the
\* container shell receives that joined string verbatim as one argument.
C3_ListAsJoinedWithSpacedSemicolon ==
    RanList =>
        LET joined == Between(<<" ", ";", " ">>, last.cmd.list)
        IN /\ SameAsRunOfString(joined)
           /\ Len(last.log) = 1
           /\ last.log[1].verb = "exec"
           /\ last.log[1].service = last.service
           /\ ShWord(last.log[1].arg, "plain") = joined

C3_Witness ==
    /\ RanList
    /\ Len(last.cmd.list) = 2
    /\ last.cmd.list[1] = Str_cd
    /\ last.cmd.list[2] = Str_its
    /\ last.exc = NoExc
    /\ last.ret[3] = 1

\* Exception classes that are I/O errors (OSError and its subclasses).
IOErrors == {"OSError", "IOError", "FileNotFoundError", "IsADirectoryError",
             "FileExistsError", "shutil.Error"}

TmpName(source) == joinpath(Tmp, basename(source))

\* The copy-out fetch is about to perform on the execution target.
CopyOut(service_name, source) ==
    HostExec(TargetFS, CopyCmd(service_name, source, TmpName(source)), 0)

\* C4: when the copy-out command of fetch exits non-zero, fetch raises an
\* I/O-class error whose message carries the captured standard error of that
\* command, and nothing is transferred to dest.
C4_CopyOutFailureRaisesIOError ==
    [][(IsCall("fetch") /\ Known(last'.service)
        /\ CopyOut(last'.service, last'.source).code # 0) =>
          /\ last'.exc \in IOErrors
          /\ \E i \in 1..Len(last'.msg) :
                last'.msg[i] = CopyOut(last'.service, last'.source).stderr
          /\ lfs' = lfs]_vars

\* Where the fetched object ends up: inside dest when dest is an existing
\* directory, at dest otherwise.
Landing(fs, source, dest) ==
    IF IsDir(fs, dest) THEN joinpath(dest, basename(source)) ELSE dest

\* C5: after fetch returns, the local object at dest reproduces the
\* container's source: the same bytes for a file, the same tree for a
\* directory.
C5_FetchReproducesSource ==
    [][(IsCall("fetch") /\ Known(last'.service) /\ last'.exc = NoExc) =>
          Subtree(lfs', Landing(lfs, last'.source, last'.dest))
            = Subtree(Container, last'.source)]_vars

\* C6: with no remote session the remote challenge directory equals the
\* local one whatever remote_challenge_dir was passed, and every command
\* uses local_challenge_dir/compose_filename; this holds after any calls.
C6_LocalModeSharesChallengeDir ==
    ~ssh_conn.session =>
        /\ remote_chall_dir = local_chall_dir
        /\ compose_path = joinpath(local_chall_dir, ComposeFilename)
        /\ \A i \in 1..Len(last.log) :
              last.log[i].tool = "docker compose" =>
                 last.log[i].f = joinpath(local_chall_dir, ComposeFilename)

C6_Witness ==
    /\ ~ssh_conn.session
    /\ ctor_remote_arg = SomePath(<<"srv", "chall">>)
    /\ calls >= 2
    /\ last.op = "fetch"
    /\ last.exc = NoExc

\* C7: OK() and OK(m) are ok, FAIL(m) and ERROR(m) are not, each constructor
\* sets its own status, and message is the message supplied ("" for OK()).
C7_VerdictConstructors ==
    verdict.ctor # "none" =>
        /\ is_ok(verdict.obj) <=> (verdict.ctor = "OK")
        /\ verdict.obj.status = verdict.ctor
        /\ verdict.obj.message = (IF verdict.args = <<>> THEN "" ELSE verdict.args[1])

C7_Witness ==
    /\ verdict.ctor = "ERROR"
    /\ verdict.args = <<"OK">>
    /\ ~is_ok(verdict.obj)

\* C8: after a successful copy-out, fetch takes the directory-transfer
\* branch exactly when the retrieved path is a directory and the
\* file-transfer branch otherwise, on both targets and for every source
\* name, names containing "directory" included.
C8_BranchIffDirectory ==
    [][(IsCall("fetch") /\ Known(last'.service)
        /\ CopyOut(last'.service, last'.source).code = 0) =>
          LET retrieved == IsDir(CopyOut(last'.service, last'.source).fs,
                                 TmpName(last'.source))
          IN last'.branch = (IF retrieved THEN "folder" ELSE "file")]_vars

\* The steps of a remote directory transfer, in order.
FolderSteps(source, dest, hex) ==
    LET tmpname == TmpName(source)
        tarname == joinpath(Tmp, hex)
    IN << Step("ssh", "tar -czf", tmpname, tarname),
          Step("ssh", "get", tarname, tarname),
          Step("ssh", "rm -rf", tmpname, tarname),
          Step("local", "tar -xzf", tarname, Tmp),
          Step("shutil", "move", tmpname, dest),
          Step("os", "remove", tarname, <<>>) >>

RemoteFolderFetched ==
    /\ ssh_conn.session
    /\ last.op = "fetch"
    /\ last.branch = "folder"
    /\ last.exc = NoExc

\* C9: a remote-mode fetch of a directory archives the copied-out directory
\* on the remote host, downloads the tarball, removes the remote tarball and
\* the remote copy, extracts the tarball locally, moves the tree to dest and
\* removes the local tarball, in this order; when it returns none of the
\* four temporaries exists.
C9_RemoteFolderStepsAndCleanup ==
    RemoteFolderFetched =>
        /\ Len(last.log) = 8
        /\ last.log[1].verb = "cp"
        /\ last.log[2] = Step("ssh", "file", TmpName(last.source), <<>>)
        /\ SubSeq(last.log, 3, 8) = FolderSteps(last.source, last.dest, last.hex)
        /\ ~Exists(rfs, joinpath(Tmp, last.hex))
        /\ ~Exists(rfs, TmpName(last.source))
        /\ ~Exists(lfs, joinpath(Tmp, last.hex))
        /\ ~Exists(lfs, TmpName(last.source))

C9_Witness ==
    /\ RemoteFolderFetched
    /\ last.source = <<"etc", "nginx">>
    /\ IsDir(lfs, <<"out">>)
    /\ IsFile(lfs, <<"out", "conf.d", "default.conf">>)

\* C10: fetch is repeatable: a second fetch with the same arguments right
\* after one that returned also returns, leaves dest as the first left it,
\* and leaves no /tmp/<basename of source> on the execution target.
C10_FetchRepeatable ==
    [][(/\ last.op = "fetch" /\ last.exc = NoExc
        /\ IsCall("fetch")
        /\ last'.service = last.service
        /\ last'.source = last.source
        /\ last'.dest = last.dest) =>
          /\ last'.exc = NoExc
          /\ Subtree(lfs', last.dest) = Subtree(lfs, last.dest)
          /\ ~Exists(IF ssh_conn.session THEN rfs' ELSE lfs', TmpName(last.source))]_vars

====
